---- MODULE Spec2Model ----
(***************************************************************************)
(* Model of the incremental scalability benchmark harness                  *)
(* (analysis/scalability_test.py): DatabaseManager growing the contacts    *)
(* and properties tables from the loaded JSON pools,                       *)
(* RecommendationScalabilityTester.run_scalability_test driving growth     *)
(* steps and probes, and main() exporting the collected results.           *)
(***************************************************************************)
EXTENDS Integers, Sequences, FiniteSets, TLC

\* ------------------------------------------------------------------ bounds
MaxPool == 2
MaxTarget == 3
MaxBatch == 2
MaxTests == 1
PreRows == 1

\* ------------------------------------------------------- program constants
HTTP_OK == 200
TextLimit == 100

VARIABLES
    contacts_data,        \* DatabaseManager.contacts_data: the contact pool
    properties_data,      \* DatabaseManager.properties_data: the property pool
    contacts_tbl,         \* committed rows of table contacts, in insertion order
    properties_tbl,       \* committed rows of table properties
    contacts_seq,         \* last value of the contacts id sequence
    properties_seq,       \* last value of the properties id sequence
    args_max_contacts,    \* main(): args.max_contacts, as configured
    args_max_properties,  \* main(): args.max_properties, as configured
    max_contacts,         \* run_scalability_test's parameter (clamped)
    max_properties,
    contact_batch_size,
    property_batch_size,
    tests_per_step,
    include_bulk_tests,
    bulk_batch_sizes,
    current_contacts,
    current_properties,
    step,
    all_contact_ids,
    new_contact_ids,
    db_contacts,
    db_properties,
    test_num,
    bulk_idx,
    results,              \* RecommendationScalabilityTester.results
    csv_rows,             \* rows written by save_results_to_csv
    probes_sent,          \* recommendation requests issued so far
    service,              \* how the target service answers the requests
    health,               \* what the health probe produced (status, 0: error)
    fatal,                \* the exception that ended the process, if any
    step_printed,         \* what the last "Print step summary" computed
    summary_printed,      \* what the last print_summary_stats computed
    bulk_sent,            \* the contact_ids of the last bulk request's payload
    delays,               \* pacing delays performed (the run has no sleep call)
    pc

vars == << contacts_data, properties_data, contacts_tbl, properties_tbl,
           contacts_seq, properties_seq, max_contacts, max_properties,
           contact_batch_size, property_batch_size, tests_per_step,
           include_bulk_tests, bulk_batch_sizes, current_contacts,
           current_properties, step, all_contact_ids, new_contact_ids,
           db_contacts, db_properties, test_num, bulk_idx, results, csv_rows,
           probes_sent, service, health, fatal, args_max_contacts,
           args_max_properties, step_printed, summary_printed, bulk_sent,
           delays, pc >>

cfgVars == << contacts_data, properties_data, contact_batch_size,
              property_batch_size, tests_per_step, include_bulk_tests,
              bulk_batch_sizes, args_max_contacts, args_max_properties,
              service, delays >>
dbVars == << contacts_tbl, properties_tbl, contacts_seq, properties_seq >>
outVars == << step_printed, summary_printed, bulk_sent >>
loopVars == << current_contacts, current_properties, step, all_contact_ids,
               new_contact_ids, db_contacts, db_properties, test_num, bulk_idx >>

\* ----------------------------------------------------------------- helpers
Min(a, b) == IF a <= b THEN a ELSE b

Range(s) == { s[i] : i \in 1..Len(s) }

RECURSIVE SeqMin(_)
SeqMin(s) == IF Len(s) = 1 THEN s[1] ELSE Min(s[1], SeqMin(Tail(s)))

\* the pool of n records, each with a stable identity 1..n
Pool(n) == [ i \in 1..n |-> i ]

\* Python's seq[start:end] for a sequence of length n (0-based, end exclusive)
PyIndex(i, n) == IF i < 0 THEN (IF i + n < 0 THEN 0 ELSE i + n)
                 ELSE IF i > n THEN n ELSE i
PySlice(s, start, end) ==
    LET a == PyIndex(start, Len(s))
        b == PyIndex(end, Len(s))
    IN  IF a < b THEN SubSeq(s, a + 1, b) ELSE << >>

\* DatabaseManager.get_counts
get_counts == << Len(contacts_tbl), Len(properties_tbl) >>

\* variant: a batch that wraps around the pool instead of stopping at its end
BatchToAddCyclic(data, current_count, batch_size) ==
    IF Len(data) = 0 THEN << >>
    ELSE [ i \in 1..batch_size |-> data[((current_count + i - 1) % Len(data)) + 1] ]

\* variant: every batch is taken from the start of the pool
BatchToAddRestart(data, current_count, batch_size) ==
    IF Len(data) = 0 THEN << >>
    ELSE PySlice(data, 0, Min(batch_size, Len(data)))

\* rows of a batch: the slice of the pool add_*_batch selects
BatchToAdd(data, current_count, batch_size) ==
    IF Len(data) = 0 THEN << >>
    ELSE LET start_idx == current_count
             end_idx == Min(start_idx + batch_size, Len(data))
         IN  IF start_idx >= Len(data) THEN << >>
             ELSE PySlice(data, start_idx, end_idx)

\* INSERT ... RETURNING id for each row of the batch, in order
InsertedRows(batch, seq) ==
    [ i \in 1..Len(batch) |-> [ id |-> seq + i, rec |-> batch[i] ] ]

IdsOf(rows) == [ i \in 1..Len(rows) |-> rows[i].id ]

\* ------------------------------------------------------- service responses
\* What one HTTP call can produce: a response (status, body, text) or an
\* exception raised by requests.  Strings are sequences of characters; a JSON
\* body is described by the features the parsers look at.
NoRecs == [ has |-> FALSE, sized |-> FALSE, len |-> 0 ]
NoTotal == [ has |-> FALSE, val |-> 0 ]
NoNested == [ has |-> FALSE, islist |-> FALSE, items |-> << >> ]

NotJson == [ tag |-> "notjson", len |-> 0, recs |-> NoRecs, total |-> NoTotal,
             nested |-> NoNested ]
JsonList(n) == [ tag |-> "list", len |-> n, recs |-> NoRecs, total |-> NoTotal,
                 nested |-> NoNested ]
JsonDict(r, t, x) == [ tag |-> "dict", len |-> 0, recs |-> r, total |-> t,
                       nested |-> x ]
RecsList(n) == [ has |-> TRUE, sized |-> TRUE, len |-> n ]
RecsUnsized == [ has |-> TRUE, sized |-> FALSE, len |-> 0 ]
Total(v) == [ has |-> TRUE, val |-> v ]
\* a key ending in "recommendations" holding a list; an item n >= 0 is a dict
\* whose "recommendations" has length n, -1 an item the loop skips, -2 an item
\* whose "recommendations" has no len()
Nested(items) == [ has |-> TRUE, islist |-> TRUE, items |-> items ]
NestedNonList == [ has |-> TRUE, islist |-> FALSE, items |-> << >> ]

Response(status, body, text, elapsed) ==
    [ kind |-> "response", status_code |-> status, body |-> body,
      text |-> text, cls |-> "", msg |-> << >>, elapsed |-> elapsed ]
Raised(cls, msg, elapsed) ==
    [ kind |-> "exception", status_code |-> 0, body |-> NotJson,
      text |-> << >>, cls |-> cls, msg |-> msg, elapsed |-> elapsed ]

\* variant: only connection errors are caught
IsRequestExceptionNarrow(cls) == cls = "ConnectionError"

\* classes derived from requests.exceptions.RequestException
IsRequestException(cls) == cls \in { "ConnectionError", "Timeout" }

\* ------------------------------------------------------ measurement record
NoneId == 0
NoError == [ isNone |-> TRUE, text |-> << >> ]
ErrorText(t) == [ isNone |-> FALSE, text |-> t ]

Prefix(s, n) == IF Len(s) <= n THEN s ELSE SubSeq(s, 1, n)

\* f"HTTP {response.status_code}: {response.text[:100]}"
HttpError(o) ==
    ErrorText(<< "H", "T", "T", "P", " " >> \o << ToString(o.status_code) >>
              \o << ":", " " >> \o Prefix(o.text, TextLimit))

\* variant: any 2xx status counts as a success
IsSuccess2xx(status_code) == status_code \in 200..299

\* success = response.status_code == 200
IsSuccess(status_code) == status_code = HTTP_OK

ScalabilityResult(tc, tp, endpoint, cid, o, count) ==
    IF o.kind = "response"
    THEN [ total_contacts |-> tc, total_properties |-> tp,
           endpoint |-> endpoint, contact_id |-> cid,
           response_time_ms |-> o.elapsed * 1000,
           status_code |-> o.status_code,
           response_size_bytes |-> Len(o.text),
           recommendations_count |-> count,
           success |-> IsSuccess(o.status_code),
           error_message |-> IF IsSuccess(o.status_code) THEN NoError
                             ELSE HttpError(o) ]
    ELSE [ total_contacts |-> tc, total_properties |-> tp,
           endpoint |-> endpoint, contact_id |-> cid,
           response_time_ms |-> o.elapsed * 1000,
           status_code |-> 0,
           response_size_bytes |-> 0,
           recommendations_count |-> 0,
           success |-> FALSE,
           error_message |-> ErrorText(o.msg) ]

\* single endpoint: the count read from a 200 body (a failed parse leaves 0)
SingleCount(body) ==
    IF body.tag = "dict" /\ body.recs.has
    THEN (IF body.recs.sized THEN body.recs.len ELSE 0)
    ELSE IF body.tag = "list" THEN body.len
    ELSE 0

\* nested shape: sum of the items' lengths, up to the first item that raises
RECURSIVE NestedCount(_)
NestedCount(items) ==
    IF items = << >> THEN 0
    ELSE IF items[1] = -2 THEN 0
    ELSE (IF items[1] >= 0 THEN items[1] ELSE 0) + NestedCount(Tail(items))

\* variant: every shape found in the body is counted
BulkCountAll(body) ==
    IF body.tag # "dict" THEN 0
    ELSE (IF body.recs.has /\ body.recs.sized THEN body.recs.len ELSE 0)
         + (IF body.total.has THEN body.total.val ELSE 0)
         + (IF body.nested.has /\ body.nested.islist
            THEN NestedCount(body.nested.items) ELSE 0)

\* bulk endpoint: the count read from a 200 body
BulkCount(body) ==
    IF body.tag # "dict" THEN 0
    ELSE IF body.recs.has THEN (IF body.recs.sized THEN body.recs.len ELSE 0)
    ELSE IF body.total.has THEN body.total.val
    ELSE IF body.nested.has /\ body.nested.islist
         THEN NestedCount(body.nested.items)
    ELSE 0

SingleEndpoint == [ name |-> "single_contact", size |-> 0 ]
BulkEndpoint(n) == [ name |-> "bulk_recommendations", size |-> n ]

\* the outcome of a measurement call: the record it returns, or the exception
\* class that escapes it
Returned(rec) == [ raised |-> FALSE, rec |-> rec ]
Escaped(o) == [ raised |-> TRUE,
                rec |-> ScalabilityResult(0, 0, SingleEndpoint, NoneId, o, 0) ]

\* recommendations_count: parsed only from a successful response
SingleParsed(o) ==
    IF o.kind = "response" /\ IsSuccess(o.status_code)
    THEN SingleCount(o.body) ELSE 0

\* variant: the body is parsed whatever the status
BulkParsedAlways(o) == IF o.kind = "response" THEN BulkCount(o.body) ELSE 0

BulkParsed(o) ==
    IF o.kind = "response" /\ IsSuccess(o.status_code)
    THEN BulkCount(o.body) ELSE 0

\* variant: the record carries the loop's own property counter
test_recommendation_endpointStale(contact_id, total_contacts, total_properties, o) ==
    IF o.kind = "exception" /\ ~IsRequestException(o.cls) THEN Escaped(o)
    ELSE Returned(ScalabilityResult(total_contacts, current_properties,
                      SingleEndpoint, contact_id, o, SingleParsed(o)))

test_recommendation_endpoint(contact_id, total_contacts, total_properties, o) ==
    IF o.kind = "exception" /\ ~IsRequestException(o.cls) THEN Escaped(o)
    ELSE Returned(ScalabilityResult(total_contacts, total_properties,
                      SingleEndpoint, contact_id, o, SingleParsed(o)))

\* "if batch_size: contact_ids = contact_ids[:batch_size]": the identifiers
\* of the payload
BulkPayload(contact_ids, batch_size) ==
    IF batch_size # 0 THEN PySlice(contact_ids, 0, batch_size) ELSE contact_ids

\* variant: the bulk record carries the loop's own property counter
test_bulk_recommendation_endpointStale(contact_ids, total_contacts, total_properties, batch_size, o) ==
    LET ids == BulkPayload(contact_ids, batch_size)
    IN  IF o.kind = "exception" /\ ~IsRequestException(o.cls) THEN Escaped(o)
        ELSE Returned(ScalabilityResult(total_contacts, current_properties,
                          BulkEndpoint(Len(ids)), NoneId, o, BulkParsed(o)))

test_bulk_recommendation_endpoint(contact_ids, total_contacts, total_properties, batch_size, o) ==
    LET ids == BulkPayload(contact_ids, batch_size)
    IN  IF o.kind = "exception" /\ ~IsRequestException(o.cls) THEN Escaped(o)
        ELSE Returned(ScalabilityResult(total_contacts, total_properties,
                          BulkEndpoint(Len(ids)), NoneId, o, BulkParsed(o)))

\* variant: any answer counts as healthy
test_health_endpointAny(o) == o.kind = "response"

\* test_health_endpoint: ready iff the probe answers 200
test_health_endpoint(o) == o.kind = "response" /\ o.status_code = HTTP_OK

\* ------------------------------------------------------------ input domains
\* outcomes of the recommendation requests made during a run
RunOutcomes ==
    { Response(200, JsonDict(RecsList(1), NoTotal, NoNested), << "o", "k" >>, 1),
      Response(200, NotJson, << "x" >>, 1),
      Response(503, JsonDict(RecsList(2), NoTotal, NoNested), << "e" >>, 1),
      Raised("Timeout", << >>, 1) }

\* the service answers the requests of a run by alternating two outcomes
ServiceScripts == { << a, b >> : a, b \in RunOutcomes }

HealthOutcomes ==
    { Response(200, NotJson, << >>, 0), Response(503, NotJson, << >>, 0),
      Raised("ConnectionError", << "d" >>, 0) }

BulkSizeLists == { << 1 >>, << 2, 1 >> }

\* rows found in the tables when the harness starts (left by an earlier run)
OldRows(n) == [ i \in 1..n |-> [ id |-> i, rec |-> 0 ] ]

\* the arguments of one collection: pool size, target and batch size
GrowthArgs == (0..MaxPool) \X (0..MaxTarget) \X (0..MaxBatch)
\* a pool of MaxPool records grown one record at a time
ContactsDefault == << MaxPool, MaxTarget, 1 >>
\* a pool of MaxPool records grown one record at a time
PropertiesDefault == << MaxPool, MaxTarget, 1 >>

\* the outcome of the next request
NextOutcome == service[(probes_sent % Len(service)) + 1]

\* ------------------------------------------------------ summary statistics
\* Latencies of the model are whole numbers of milliseconds; a quotient the
\* code computes is the exact fraction n/d in lowest terms with d > 0.
Abs(x) == IF x < 0 THEN -x ELSE x

RECURSIVE GCD(_, _)
GCD(a, b) == IF b = 0 THEN a ELSE GCD(b, a % b)

Rat(n, d) == LET g == GCD(Abs(n), d) IN [ n |-> n \div g, d |-> d \div g ]

\* "avg_time = 0"
Zero == Rat(0, 1)

RAdd(a, b) == Rat(a.n * b.d + b.n * a.d, a.d * b.d)
RMulInt(a, k) == Rat(a.n * k, a.d)
RLess(a, b) == a.n * b.d < b.n * a.d
\* a / b for b # 0
RQuot(a, b) == IF b.n > 0 THEN Rat(a.n * b.d, a.d * b.n)
               ELSE Rat(-(a.n * b.d), -(a.d * b.n))

RECURSIVE SumSeq(_)
SumSeq(s) == IF s = << >> THEN 0 ELSE s[1] + SumSeq(Tail(s))

RECURSIVE SumRat(_)
SumRat(s) == IF s = << >> THEN Zero ELSE RAdd(s[1], SumRat(Tail(s)))

\* [r for r in results if r.success]
Successful(rs) == SelectSeq(rs, LAMBDA r : r.success)

\* sum(r.response_time_ms for r in rs) / len(rs)
MeanTime(rs) ==
    Rat(SumSeq([ i \in 1..Len(rs) |-> rs[i].response_time_ms ]), Len(rs))

\* sum(r.recommendations_count for r in rs) / len(rs)
MeanCount(rs) ==
    Rat(SumSeq([ i \in 1..Len(rs) |-> rs[i].recommendations_count ]), Len(rs))

\* len(successful_results) / len(results) * 100
SuccessRate(rs) == Rat(Len(Successful(rs)) * 100, Len(rs))

\* "Print step summary" of run_scalability_test: the average and the success
\* rate of the records taken at this step's contact count, the bulk line only
\* when bulk tests are enabled; a line is printed when there are records
StepLine(rs) ==
    IF rs = << >> THEN << >>
    ELSE << [ avg_response_time |-> MeanTime(rs),
              success_rate |-> SuccessRate(rs) ] >>

StepSummaryOf(rs, contacts, with_bulk) ==
    LET step_results ==
            SelectSeq(rs, LAMBDA r : r.total_contacts = contacts
                                       /\ r.endpoint.name = "single_contact")
        bulk_results ==
            SelectSeq(rs, LAMBDA r : r.total_contacts = contacts
                                       /\ r.endpoint.name = "bulk_recommendations")
    IN  [ single |-> StepLine(step_results),
          bulk |-> IF with_bulk THEN StepLine(bulk_results) ELSE << >> ]

NoStepSummary == [ single |-> << >>, bulk |-> << >> ]

\* key = (result.total_contacts, result.total_properties, result.endpoint)
GroupKey(r) == << r.total_contacts, r.total_properties, r.endpoint >>

\* the keys of size_groups, in the order the dict received them
RECURSIVE KeysFrom(_, _)
KeysFrom(rs, acc) ==
    IF rs = << >> THEN acc
    ELSE KeysFrom(Tail(rs), IF GroupKey(Head(rs)) \in Range(acc) THEN acc
                            ELSE Append(acc, GroupKey(Head(rs))))

size_groups(rs) == KeysFrom(rs, << >>)

\* size_groups[key]
GroupOf(rs, key) == SelectSeq(rs, LAMBDA r : GroupKey(r) = key)

\* the decimal digits of a size, as f"..._{len(contact_ids)}" writes them
RECURSIVE Digits(_)
Digits(n) == IF n < 10 THEN << n >> ELSE Append(Digits(n \div 10), n % 10)

\* int(...) of a string of digits
RECURSIVE FromDigits(_)
FromDigits(ds) ==
    IF Len(ds) = 1 THEN ds[1]
    ELSE FromDigits(SubSeq(ds, 1, Len(ds) - 1)) * 10 + ds[Len(ds)]

\* bulk_size = int(endpoint.split('_')[-1])
BulkSizeOf(endpoint) == FromDigits(Digits(endpoint.size))

\* the order of two strings of digits
RECURSIVE LexLess(_, _)
LexLess(a, b) ==
    IF b = << >> THEN FALSE
    ELSE IF a = << >> THEN TRUE
    ELSE IF a[1] # b[1] THEN a[1] < b[1]
    ELSE LexLess(Tail(a), Tail(b))

\* the order of two endpoint names, as strings
EndpointLess(a, b) ==
    IF a.name # b.name THEN a.name = "bulk_recommendations"
    ELSE LexLess(Digits(a.size), Digits(b.size))

\* the order of two keys, as tuples
KeyLess(a, b) ==
    \/ a[1] < b[1]
    \/ a[1] = b[1] /\ a[2] < b[2]
    \/ a[1] = b[1] /\ a[2] = b[2] /\ EndpointLess(a[3], b[3])

RECURSIVE InsertKey(_, _)
InsertKey(k, s) ==
    IF s = << >> THEN << k >>
    ELSE IF KeyLess(k, s[1]) THEN << k >> \o s
    ELSE << s[1] >> \o InsertKey(k, Tail(s))

\* sorted(groups.items())
RECURSIVE SortedKeys(_)
SortedKeys(s) ==
    IF s = << >> THEN s ELSE InsertKey(Head(s), SortedKeys(Tail(s)))

\* one line of the grouped tables
GroupRow(rs, key) ==
    LET group == GroupOf(rs, key)
        successful_results == Successful(group)
    IN  [ contacts |-> key[1], properties |-> key[2], endpoint |-> key[3],
          tests |-> Len(group),
          avg_time |-> IF successful_results # << >>
                       THEN MeanTime(successful_results) ELSE Zero,
          avg_recommendations |-> IF successful_results # << >>
                                  THEN MeanCount(successful_results) ELSE Zero,
          success_rate |-> SuccessRate(group) ]

GroupRows(rs, keys) == [ i \in 1..Len(keys) |-> GroupRow(rs, keys[i]) ]

\* variant: the comparison is made at the smallest contact count
SmallestContacts(keys) ==
    CHOOSE c \in { k[1] : k \in Range(keys) } :
        \A k \in Range(keys) : k[1] >= c

\* variant: the comparison is made at the contact count of the first group
FirstContacts(keys) == keys[1][1]

\* max_contacts = max(contacts for contacts, _, _ in size_groups.keys())
LargestContacts(keys) ==
    CHOOSE c \in { k[1] : k \in Range(keys) } :
        \A k \in Range(keys) : k[1] <= c

\* the order of two (bulk_size, avg_time) tuples
PairLess(a, b) ==
    \/ a.bulk_size < b.bulk_size
    \/ a.bulk_size = b.bulk_size /\ RLess(a.bulk_time, b.bulk_time)

RECURSIVE InsertPair(_, _)
InsertPair(p, s) ==
    IF s = << >> THEN << p >>
    ELSE IF PairLess(p, s[1]) THEN << p >> \o s
    ELSE << s[1] >> \o InsertPair(p, Tail(s))

\* sorted(bulk_results)
RECURSIVE SortedPairs(_)
SortedPairs(s) ==
    IF s = << >> THEN s ELSE InsertPair(Head(s), SortedPairs(Tail(s)))

\* variant: the bulk time is compared with one single request
EfficiencyPerRequest(bulk_time, avg_single_time, bulk_size) ==
    RQuot(bulk_time, avg_single_time)

\* efficiency = bulk_time / (avg_single_time * bulk_size)
Efficiency(bulk_time, avg_single_time, bulk_size) ==
    RQuot(bulk_time, RMulInt(avg_single_time, bulk_size))

\* "for bulk_size, bulk_time in sorted(bulk_results)": one line per tuple, up
\* to the first one whose division raises ZeroDivisionError
RECURSIVE EfficiencyLines(_, _, _)
EfficiencyLines(pairs, avg_single_time, largest) ==
    IF pairs = << >> THEN [ lines |-> << >>, raised |-> FALSE ]
    ELSE IF RMulInt(avg_single_time, pairs[1].bulk_size).n = 0
    THEN [ lines |-> << >>, raised |-> TRUE ]
    ELSE LET rest == EfficiencyLines(Tail(pairs), avg_single_time, largest)
         IN  [ lines |-> << [ contacts |-> largest,
                              bulk_size |-> pairs[1].bulk_size,
                              bulk_time |-> pairs[1].bulk_time,
                              efficiency |->
                                  Efficiency(pairs[1].bulk_time, avg_single_time,
                                             pairs[1].bulk_size) ] >>
                           \o rest.lines,
               raised |-> rest.raised ]

\* "Overall performance comparison": the groups of the largest contact count
\* that have successful records, the mean of the single ones, and one
\* efficiency per bulk tuple
PerformanceComparison(rs, keys) ==
    LET largest == LargestContacts(keys)
        measured == SelectSeq(keys, LAMBDA k :
                        k[1] = largest /\ Successful(GroupOf(rs, k)) # << >>)
        single_keys == SelectSeq(measured, LAMBDA k : k[3].name = "single_contact")
        bulk_keys == SelectSeq(measured, LAMBDA k :
                        k[3].name = "bulk_recommendations")
        single_results == [ i \in 1..Len(single_keys) |->
                              MeanTime(Successful(GroupOf(rs, single_keys[i]))) ]
        bulk_results == [ i \in 1..Len(bulk_keys) |->
                            [ bulk_size |-> BulkSizeOf(bulk_keys[i][3]),
                              bulk_time |->
                                  MeanTime(Successful(GroupOf(rs, bulk_keys[i]))) ] ]
    IN  IF single_results # << >> /\ bulk_results # << >>
        THEN LET avg_single_time ==
                     RQuot(SumRat(single_results), Rat(Len(single_results), 1))
                 out == EfficiencyLines(SortedPairs(bulk_results),
                                        avg_single_time, largest)
             IN  [ avg_single_time |-> << avg_single_time >>,
                   efficiency |-> out.lines, raised |-> out.raised ]
        ELSE [ avg_single_time |-> << >>, efficiency |-> << >>,
               raised |-> FALSE ]

NoComparison == [ avg_single_time |-> << >>, efficiency |-> << >>,
                  raised |-> FALSE ]

\* what the process has printed before any summary
NoSummary == [ called |-> FALSE, single |-> << >>, bulk |-> << >>,
               comparison |-> NoComparison ]

\* the last part of print_summary_stats: the comparison, made when there are
\* bulk groups
ComparisonOf(rs) ==
    IF rs = << >> THEN NoComparison
    ELSE LET keys == size_groups(rs)
         IN  IF \E i \in 1..Len(keys) : keys[i][3].name = "bulk_recommendations"
             THEN PerformanceComparison(rs, keys)
             ELSE NoComparison

\* print_summary_stats: the two grouped tables and the comparison; nothing
\* without results
print_summary_stats(rs) ==
    IF rs = << >>
    THEN [ called |-> TRUE, single |-> << >>, bulk |-> << >>,
           comparison |-> NoComparison ]
    ELSE LET keys == size_groups(rs)
             single_contact_groups ==
                 SelectSeq(keys, LAMBDA k : k[3].name = "single_contact")
             bulk_groups ==
                 SelectSeq(keys, LAMBDA k : k[3].name = "bulk_recommendations")
         IN  [ called |-> TRUE,
               single |-> GroupRows(rs, SortedKeys(single_contact_groups)),
               bulk |-> GroupRows(rs, SortedKeys(bulk_groups)),
               comparison |-> ComparisonOf(rs) ]

\* ------------------------------------------------------------------- main()
\* The runs explored vary the arguments of one collection at a time.
Init ==
    /\ \E c \in GrowthArgs, p \in GrowthArgs :
          /\ c = ContactsDefault \/ p = PropertiesDefault
          /\ contacts_data = Pool(c[1])
          /\ args_max_contacts = c[2]
          /\ contact_batch_size = c[3]
          /\ properties_data = Pool(p[1])
          /\ args_max_properties = p[2]
          /\ property_batch_size = p[3]
    /\ max_contacts = args_max_contacts
    /\ max_properties = args_max_properties
    /\ contacts_tbl = OldRows(PreRows)
    /\ properties_tbl = OldRows(PreRows)
    /\ contacts_seq = PreRows
    /\ properties_seq = PreRows
    /\ tests_per_step \in 0..MaxTests
    /\ include_bulk_tests \in BOOLEAN
    /\ bulk_batch_sizes \in BulkSizeLists
    /\ include_bulk_tests \/ bulk_batch_sizes = << 2, 1 >>
    /\ service \in ServiceScripts
    /\ current_contacts = 0
    /\ current_properties = 0
    /\ step = 0
    /\ all_contact_ids = << >>
    /\ new_contact_ids = << >>
    /\ db_contacts = 0
    /\ db_properties = 0
    /\ test_num = 0
    /\ bulk_idx = 0
    /\ results = << >>
    /\ csv_rows = << >>
    /\ probes_sent = 0
    /\ health = -1
    /\ fatal = ""
    /\ step_printed = NoStepSummary
    /\ summary_printed = NoSummary
    /\ bulk_sent = << >>
    /\ delays = 0
    /\ pc = "connect"

\* db_manager.connect(): False on any connection error, and the run exits
Connect ==
    /\ pc = "connect"
    /\ \/ /\ pc' = "health"
          /\ UNCHANGED fatal
       \/ /\ pc' = "exit"
          /\ fatal' = "SystemExit"
    /\ UNCHANGED << cfgVars, outVars, dbVars, loopVars, max_contacts, max_properties,
                    results, csv_rows, probes_sent, health >>

\* the health check, then (when it passes) the clamping of the targets to the
\* pools
HealthCheck ==
    /\ pc = "health"
    /\ \E o \in HealthOutcomes :
          /\ health' = o.status_code
          /\ IF test_health_endpoint(o)
             THEN /\ pc' = "clear"
                  /\ max_contacts' = Min(max_contacts, Len(contacts_data))
                  /\ max_properties' = Min(max_properties, Len(properties_data))
                  /\ UNCHANGED fatal
             ELSE /\ pc' = "exit"
                  /\ fatal' = "SystemExit"
                  /\ UNCHANGED << max_contacts, max_properties >>
    /\ UNCHANGED << cfgVars, outVars, dbVars, loopVars, results, csv_rows,
                    probes_sent >>

\* clear_tables(): DELETE FROM both tables and commit (the id sequences are
\* not reset), then the initialisation of the loop's locals; a database error
\* escapes run_scalability_test and main()
ClearTables ==
    /\ pc = "clear"
    /\ \/ /\ contacts_tbl' = << >>
          /\ properties_tbl' = << >>
          /\ pc' = "seed"
          /\ UNCHANGED fatal
       \/ /\ pc' = "crashed"
          /\ fatal' = "DatabaseError"
          /\ UNCHANGED << contacts_tbl, properties_tbl >>
    /\ UNCHANGED << cfgVars, outVars, contacts_seq, properties_seq, loopVars,
                    max_contacts, max_properties, results, csv_rows,
                    probes_sent, health >>

\* add_properties_batch(batch_size): the rows it inserts and commits
add_properties_batch(batch_size) ==
    InsertedRows(BatchToAdd(properties_data, get_counts[2], batch_size),
                 properties_seq)

\* add_contacts_batch(batch_size): the rows it inserts and commits
add_contacts_batch(batch_size) ==
    InsertedRows(BatchToAdd(contacts_data, get_counts[1], batch_size),
                 contacts_seq)

\* variant: every INSERT is committed on its own, so the rows inserted before
\* the error stay in the table
ContactsBatchFailsPartial(batch_size) ==
    /\ pc' = "crashed"
    /\ fatal' = "DatabaseError"
    /\ \E k \in 0..Len(add_contacts_batch(batch_size)) :
          /\ contacts_seq' = contacts_seq + k
          /\ contacts_tbl' =
                contacts_tbl \o SubSeq(add_contacts_batch(batch_size), 1, k)
    /\ UNCHANGED << properties_tbl, properties_seq >>

\* a persistence error inside a batch: nothing is committed, the exception
\* escapes run_scalability_test and main(); the id sequence keeps the values it
\* handed out
ContactsBatchFails(batch_size) ==
    /\ pc' = "crashed"
    /\ fatal' = "DatabaseError"
    /\ \E k \in 0..Len(add_contacts_batch(batch_size)) :
          contacts_seq' = contacts_seq + k
    /\ UNCHANGED << contacts_tbl, properties_tbl, properties_seq >>

PropertiesBatchFails(batch_size) ==
    /\ pc' = "crashed"
    /\ fatal' = "DatabaseError"
    /\ \E k \in 0..Len(add_properties_batch(batch_size)) :
          properties_seq' = properties_seq + k
    /\ UNCHANGED << contacts_tbl, properties_tbl, contacts_seq >>

\* "Add initial properties"
SeedProperties ==
    /\ pc = "seed"
    /\ \/ /\ properties_tbl' =
                properties_tbl \o add_properties_batch(property_batch_size)
          /\ properties_seq' =
                properties_seq + Len(add_properties_batch(property_batch_size))
          /\ current_properties' = property_batch_size
          /\ pc' = "loop"
          /\ UNCHANGED << contacts_tbl, contacts_seq, fatal >>
       \/ /\ PropertiesBatchFails(property_batch_size)
          /\ UNCHANGED current_properties
    /\ UNCHANGED << cfgVars, outVars, max_contacts, max_properties, current_contacts,
                    step, all_contact_ids, new_contact_ids, db_contacts,
                    db_properties, test_num, bulk_idx, results, csv_rows,
                    probes_sent, health >>

\* variant: on leaving the loop the property table is topped up with one more
\* batch
LoopExitTopUp ==
    /\ pc = "loop"
    /\ ~(current_contacts < max_contacts)
    /\ pc' = "save"
    /\ properties_tbl' =
          properties_tbl \o add_properties_batch(property_batch_size)
    /\ properties_seq' =
          properties_seq + Len(add_properties_batch(property_batch_size))
    /\ UNCHANGED << cfgVars, outVars, contacts_tbl, contacts_seq, loopVars,
                    max_contacts, max_properties, results, csv_rows,
                    probes_sent, health, fatal >>

\* the while condition fails: disconnect and return to main()
LoopExit ==
    /\ pc = "loop"
    /\ ~(current_contacts < max_contacts)
    /\ pc' = "save"
    /\ UNCHANGED << cfgVars, outVars, dbVars, loopVars, max_contacts, max_properties,
                    results, csv_rows, probes_sent, health, fatal >>

\* variant: an empty batch does not break out of the loop
GrowContactsNoBreak ==
    /\ pc = "loop"
    /\ current_contacts < max_contacts
    /\ step' = step + 1
    /\ \/ /\ contacts_tbl' =
                contacts_tbl \o add_contacts_batch(contact_batch_size)
          /\ contacts_seq' =
                contacts_seq + Len(add_contacts_batch(contact_batch_size))
          /\ new_contact_ids' = IdsOf(add_contacts_batch(contact_batch_size))
          /\ pc' = "grow_properties"
          /\ current_contacts' = current_contacts + Len(new_contact_ids')
          /\ all_contact_ids' = all_contact_ids \o new_contact_ids'
          /\ UNCHANGED << properties_tbl, properties_seq, fatal >>
       \/ /\ ContactsBatchFails(contact_batch_size)
          /\ UNCHANGED << new_contact_ids, current_contacts, all_contact_ids >>
    /\ UNCHANGED << cfgVars, outVars, max_contacts, max_properties, current_properties,
                    db_contacts, db_properties, test_num, bulk_idx, results,
                    csv_rows, probes_sent, health >>

\* one iteration's contact growth; an empty batch breaks out of the loop
GrowContacts ==
    /\ pc = "loop"
    /\ current_contacts < max_contacts
    /\ step' = step + 1
    /\ \/ /\ contacts_tbl' =
                contacts_tbl \o add_contacts_batch(contact_batch_size)
          /\ contacts_seq' =
                contacts_seq + Len(add_contacts_batch(contact_batch_size))
          /\ new_contact_ids' = IdsOf(add_contacts_batch(contact_batch_size))
          /\ IF new_contact_ids' = << >>
             THEN /\ pc' = "save"
                  /\ UNCHANGED << current_contacts, all_contact_ids >>
             ELSE /\ pc' = "grow_properties"
                  /\ current_contacts' = current_contacts + Len(new_contact_ids')
                  /\ all_contact_ids' = all_contact_ids \o new_contact_ids'
          /\ UNCHANGED << properties_tbl, properties_seq, fatal >>
       \/ /\ ContactsBatchFails(contact_batch_size)
          /\ UNCHANGED << new_contact_ids, current_contacts, all_contact_ids >>
    /\ UNCHANGED << cfgVars, outVars, max_contacts, max_properties, current_properties,
                    db_contacts, db_properties, test_num, bulk_idx, results,
                    csv_rows, probes_sent, health >>

\* the number of properties the step asks for
properties_to_add ==
    IF current_properties < max_properties
    THEN Min(property_batch_size, max_properties - current_properties)
    ELSE 0

\* the step's property growth, then "Verify counts"
GrowProperties ==
    /\ pc = "grow_properties"
    /\ \/ /\ IF properties_to_add > 0
             THEN /\ properties_tbl' =
                        properties_tbl \o add_properties_batch(properties_to_add)
                  /\ properties_seq' = properties_seq
                        + Len(add_properties_batch(properties_to_add))
                  /\ current_properties' = current_properties + properties_to_add
             ELSE UNCHANGED << properties_tbl, properties_seq,
                               current_properties >>
          /\ db_contacts' = Len(contacts_tbl)
          /\ db_properties' = Len(properties_tbl')
          /\ test_num' = 0
          /\ pc' = "single"
          /\ UNCHANGED << contacts_tbl, contacts_seq, fatal >>
       \/ /\ properties_to_add > 0
          /\ PropertiesBatchFails(properties_to_add)
          /\ UNCHANGED << current_properties, db_contacts, db_properties,
                          test_num >>
    /\ UNCHANGED << cfgVars, outVars, max_contacts, max_properties, current_contacts,
                    step, all_contact_ids, new_contact_ids, bulk_idx, results,
                    csv_rows, probes_sent, health >>

\* variant: the probed contact is drawn from all the contacts inserted so far
SingleProbeTargetsAll == Range(all_contact_ids)

\* random.choice(new_contact_ids): the identifiers a single probe may target
SingleProbeTargets == Range(new_contact_ids)

\* one single-contact probe against a recently added contact
SingleProbe ==
    /\ pc = "single"
    /\ test_num < tests_per_step
    /\ \E test_contact_id \in SingleProbeTargets :
          LET r == test_recommendation_endpoint(test_contact_id, db_contacts,
                                                db_properties, NextOutcome)
          IN  IF r.raised
              THEN /\ pc' = "crashed"
                   /\ fatal' = NextOutcome.cls
                   /\ UNCHANGED << results, test_num >>
              ELSE /\ results' = Append(results, r.rec)
                   /\ test_num' = test_num + 1
                   /\ pc' = "single"
                   /\ UNCHANGED fatal
    /\ probes_sent' = probes_sent + 1
    /\ UNCHANGED << cfgVars, outVars, dbVars, max_contacts, max_properties,
                    current_contacts, current_properties, step,
                    all_contact_ids, new_contact_ids, db_contacts,
                    db_properties, bulk_idx, csv_rows, health >>

\* "if include_bulk_tests and len(all_contact_ids) >= min(bulk_batch_sizes)";
\* min() of an empty list raises
SinglesDone ==
    /\ pc = "single"
    /\ ~(test_num < tests_per_step)
    /\ IF ~include_bulk_tests
       THEN pc' = "step_summary" /\ UNCHANGED fatal
       ELSE IF bulk_batch_sizes = << >>
       THEN pc' = "crashed" /\ fatal' = "ValueError"
       ELSE IF Len(all_contact_ids) >= SeqMin(bulk_batch_sizes)
       THEN pc' = "bulk" /\ UNCHANGED fatal
       ELSE pc' = "step_summary" /\ UNCHANGED fatal
    /\ bulk_idx' = 1
    /\ UNCHANGED << cfgVars, outVars, dbVars, max_contacts, max_properties,
                    current_contacts, current_properties, step,
                    all_contact_ids, new_contact_ids, db_contacts,
                    db_properties, test_num, results, csv_rows,
                    probes_sent, health >>

\* variant: random.choices(population, k=k), positions drawn with replacement
SamplesWithReplacement(population, k) ==
    { [ i \in 1..k |-> population[f[i]] ] :
        f \in [ 1..k -> 1..Len(population) ] }

\* random.sample(population, k): k distinct positions, in any order
Samples(population, k) ==
    { [ i \in 1..k |-> population[f[i]] ] :
        f \in { g \in [ 1..k -> 1..Len(population) ] :
                  \A i, j \in 1..k : i # j => g[i] # g[j] } }

\* one pass of "for bulk_size in bulk_batch_sizes"; random.sample raises on a
\* negative size
BulkProbe ==
    /\ pc = "bulk"
    /\ bulk_idx <= Len(bulk_batch_sizes)
    /\ LET bulk_size == bulk_batch_sizes[bulk_idx]
       IN  IF bulk_size > Len(all_contact_ids)
           THEN /\ bulk_idx' = bulk_idx + 1
                /\ pc' = "bulk"
                /\ UNCHANGED << results, probes_sent, fatal, bulk_sent >>
           ELSE IF bulk_size < 0
           THEN /\ pc' = "crashed"
                /\ fatal' = "ValueError"
                /\ UNCHANGED << results, bulk_idx, probes_sent, bulk_sent >>
           ELSE /\ \E bulk_contact_ids \in Samples(all_contact_ids, bulk_size) :
                      LET r == test_bulk_recommendation_endpoint(
                                   bulk_contact_ids, db_contacts,
                                   db_properties, bulk_size, NextOutcome)
                      IN  /\ bulk_sent' = BulkPayload(bulk_contact_ids, bulk_size)
                          /\ IF r.raised
                             THEN /\ pc' = "crashed"
                                  /\ fatal' = NextOutcome.cls
                                  /\ UNCHANGED << results, bulk_idx >>
                             ELSE /\ results' = Append(results, r.rec)
                                  /\ bulk_idx' = bulk_idx + 1
                                  /\ pc' = "bulk"
                                  /\ UNCHANGED fatal
                /\ probes_sent' = probes_sent + 1
    /\ UNCHANGED << cfgVars, step_printed, summary_printed, dbVars,
                    max_contacts, max_properties,
                    current_contacts, current_properties, step,
                    all_contact_ids, new_contact_ids, db_contacts,
                    db_properties, test_num, csv_rows, health >>

BulkDone ==
    /\ pc = "bulk"
    /\ bulk_idx > Len(bulk_batch_sizes)
    /\ pc' = "step_summary"
    /\ UNCHANGED << cfgVars, outVars, dbVars, loopVars, max_contacts, max_properties,
                    results, csv_rows, probes_sent, health, fatal >>

\* "Print step summary": reads the results, changes nothing
StepSummary ==
    /\ pc = "step_summary"
    /\ step_printed' = StepSummaryOf(results, db_contacts, include_bulk_tests)
    /\ pc' = "loop"
    /\ UNCHANGED << cfgVars, dbVars, loopVars, max_contacts, max_properties,
                    results, csv_rows, probes_sent, health, fatal,
                    summary_printed, bulk_sent >>

\* variant: the export is skipped when the run stopped short of its target
SaveResultsIfTargetReached ==
    /\ pc = "save"
    /\ csv_rows' = IF current_contacts >= args_max_contacts THEN results
                   ELSE << >>
    /\ pc' = "summary"
    /\ UNCHANGED << cfgVars, outVars, dbVars, loopVars, max_contacts, max_properties,
                    results, probes_sent, health, fatal >>

\* variant: the export empties the list it has written
SaveResultsAndClear ==
    /\ pc = "save"
    /\ csv_rows' = results
    /\ results' = << >>
    /\ pc' = "summary"
    /\ UNCHANGED << cfgVars, outVars, dbVars, loopVars, max_contacts, max_properties,
                    probes_sent, health, fatal >>

\* save_results_to_csv: one row per result, in order; nothing without results
SaveResults ==
    /\ pc = "save"
    /\ csv_rows' = results
    /\ pc' = "summary"
    /\ UNCHANGED << cfgVars, outVars, dbVars, loopVars, max_contacts, max_properties,
                    results, probes_sent, health, fatal >>

\* variant: the summary consumes the records it reports
SummaryCallDraining(from, to) ==
    /\ pc = from
    /\ summary_printed' = print_summary_stats(results)
    /\ results' = << >>
    /\ pc' = to
    /\ UNCHANGED << cfgVars, dbVars, loopVars, max_contacts, max_properties,
                    csv_rows, probes_sent, health, fatal, step_printed,
                    bulk_sent >>

\* one call of tester.print_summary_stats(); a ZeroDivisionError of the
\* comparison ends the process
SummaryCall(from, to) ==
    /\ pc = from
    /\ summary_printed' = print_summary_stats(results)
    /\ IF summary_printed'.comparison.raised
       THEN pc' = "crashed" /\ fatal' = "ZeroDivisionError"
       ELSE pc' = to /\ UNCHANGED fatal
    /\ UNCHANGED << cfgVars, dbVars, loopVars, max_contacts, max_properties,
                    results, csv_rows, probes_sent, health, step_printed,
                    bulk_sent >>

\* main(): tester.print_summary_stats()
PrintSummary == SummaryCall("summary", "done")

Next ==
    \/ Connect
    \/ HealthCheck
    \/ ClearTables
    \/ SeedProperties
    \/ LoopExit
    \/ GrowContacts
    \/ GrowProperties
    \/ SingleProbe
    \/ SinglesDone
    \/ BulkProbe
    \/ BulkDone
    \/ StepSummary
    \/ SaveResults
    \/ PrintSummary

Spec == Init /\ [][Next]_vars

\* the loop as one sequential thread whose calls all return: a step of the
\* loop that can be taken is taken
\* The runs explored vary the contact arguments, the probes per step and the
\* bulk switch, against a service that answers every request.
InitLive ==
    /\ Init
    /\ Len(properties_data) = PropertiesDefault[1]
    /\ args_max_properties = PropertiesDefault[2]
    /\ property_batch_size = PropertiesDefault[3]
    /\ bulk_batch_sizes = << 2, 1 >>
    /\ service[1].kind = "response"
    /\ service[2] = service[1]

\* the steps of the growth loop of run_scalability_test
LoopStep ==
    \/ LoopExit
    \/ GrowContacts
    \/ GrowProperties
    \/ SingleProbe
    \/ SinglesDone
    \/ BulkProbe
    \/ BulkDone
    \/ StepSummary

SpecLive == InitLive /\ [][Next]_vars /\ WF_vars(LoopStep)

\* ---------------------------------------------------- probes at a snapshot
\* The probing phase of a step under every kind of answer: the state of a run
\* over pools of MaxPool records after the growth of its first step (one batch
\* of MaxBatch contacts, two batches of one property), with a service that
\* gives one of ProbeOutcomes to every request.
ProbeBodies ==
    { NotJson, JsonList(0), JsonList(2),
      JsonDict(NoRecs, NoTotal, NoNested),
      JsonDict(RecsList(0), NoTotal, NoNested),
      JsonDict(RecsList(2), NoTotal, NoNested),
      JsonDict(RecsUnsized, NoTotal, NoNested),
      JsonDict(RecsList(1), Total(5), Nested(<< 2 >>)),
      JsonDict(NoRecs, Total(3), NoNested),
      JsonDict(NoRecs, Total(4), Nested(<< 1 >>)),
      JsonDict(NoRecs, NoTotal, Nested(<< 1, 2 >>)),
      JsonDict(NoRecs, NoTotal, Nested(<< 1, -1, 2 >>)),
      JsonDict(NoRecs, NoTotal, Nested(<< 1, -2, 2 >>)),
      JsonDict(NoRecs, NoTotal, NestedNonList) }

\* (end_time - start_time), the difference of two time.time() readings
Elapsed(start_time, end_time) == end_time - start_time

\* pairs of readings of the system clock taken before and after a request:
\* the clock is not monotonic, it can be set back between the two
ClockReadings == { << 1, 2 >>, << 1, 1 >>, << 2, 1 >> }

ProbeOutcomes ==
    { Response(st, b, t, Elapsed(c[1], c[2])) :
        st \in { 200, 201, 204, 404, 503 }, b \in ProbeBodies,
        t \in { << >>, << "b" >> }, c \in ClockReadings }
    \cup { Raised(x, m, Elapsed(c[1], c[2])) :
             x \in { "ConnectionError", "Timeout" }, m \in { << >>, << "m" >> },
             c \in ClockReadings }

InitProbe ==
    /\ contacts_data = Pool(MaxPool)
    /\ properties_data = Pool(MaxPool)
    /\ args_max_contacts = MaxTarget
    /\ args_max_properties = MaxTarget
    /\ max_contacts = MaxPool
    /\ max_properties = MaxPool
    /\ contact_batch_size = MaxBatch
    /\ property_batch_size = 1
    /\ contacts_tbl = InsertedRows(PySlice(Pool(MaxPool), 0, MaxBatch), PreRows)
    /\ properties_tbl = InsertedRows(PySlice(Pool(MaxPool), 0, 2), PreRows)
    /\ contacts_seq = PreRows + Len(contacts_tbl)
    /\ properties_seq = PreRows + Len(properties_tbl)
    /\ tests_per_step \in 0..MaxTests
    /\ include_bulk_tests \in BOOLEAN
    /\ bulk_batch_sizes = << 2, 1 >>
    /\ service \in { << o >> : o \in ProbeOutcomes }
    /\ current_contacts = Len(contacts_tbl)
    /\ current_properties = 2
    /\ step = 1
    /\ all_contact_ids = IdsOf(contacts_tbl)
    /\ new_contact_ids = IdsOf(contacts_tbl)
    /\ db_contacts = Len(contacts_tbl)
    /\ db_properties = Len(properties_tbl)
    /\ test_num = 0
    /\ bulk_idx = 0
    /\ results = << >>
    /\ csv_rows = << >>
    /\ probes_sent = 0
    /\ health = HTTP_OK
    /\ fatal = ""
    /\ step_printed = NoStepSummary
    /\ summary_printed = NoSummary
    /\ bulk_sent = << >>
    /\ delays = 0
    /\ pc = "single"

NextProbe ==
    \/ SingleProbe
    \/ SinglesDone
    \/ BulkProbe
    \/ BulkDone
    \/ StepSummary

SpecProbe == InitProbe /\ [][NextProbe]_vars

\* ------------------------------------------------ bulk sizes at a snapshot
\* The probing phase of a step for several --bulk-sizes lists (argparse reads
\* any integers, at least one): the state of a run after a growth that has
\* left 1..MaxPool contacts in the table, with a service that gives one of
\* RunOutcomes to every request.
BulkSizeChoices ==
    { << 2, 1 >>, << 1, 3 >>, << 3 >>, << 0, 2 >>, << -1, 1 >> }

InitBulk ==
    /\ contacts_data = Pool(MaxPool)
    /\ properties_data = Pool(MaxPool)
    /\ args_max_contacts = MaxTarget
    /\ args_max_properties = MaxTarget
    /\ max_contacts = MaxPool
    /\ max_properties = MaxPool
    /\ \E n \in 1..MaxPool :
          /\ contact_batch_size = n
          /\ contacts_tbl = InsertedRows(PySlice(Pool(MaxPool), 0, n), PreRows)
    /\ property_batch_size = 1
    /\ properties_tbl = InsertedRows(PySlice(Pool(MaxPool), 0, 2), PreRows)
    /\ contacts_seq = PreRows + Len(contacts_tbl)
    /\ properties_seq = PreRows + Len(properties_tbl)
    /\ tests_per_step \in 0..MaxTests
    /\ include_bulk_tests \in BOOLEAN
    /\ bulk_batch_sizes \in BulkSizeChoices
    /\ service \in { << o >> : o \in RunOutcomes }
    /\ current_contacts = Len(contacts_tbl)
    /\ current_properties = 2
    /\ step = 1
    /\ all_contact_ids = IdsOf(contacts_tbl)
    /\ new_contact_ids = IdsOf(contacts_tbl)
    /\ db_contacts = Len(contacts_tbl)
    /\ db_properties = Len(properties_tbl)
    /\ test_num = 0
    /\ bulk_idx = 0
    /\ results = << >>
    /\ csv_rows = << >>
    /\ probes_sent = 0
    /\ health = HTTP_OK
    /\ fatal = ""
    /\ step_printed = NoStepSummary
    /\ summary_printed = NoSummary
    /\ bulk_sent = << >>
    /\ delays = 0
    /\ pc = "single"

SpecBulk == InitBulk /\ [][NextProbe]_vars

\* ------------------------------------------------- statistics of a record set
\* The end of main() over every list of up to MaxRecords accumulated records:
\* the last step's summary, the export, print_summary_stats and a second call
\* of print_summary_stats.  The records are taken at one of two snapshots, by
\* a single probe or a bulk probe of 0 or 5 contacts, as a success of 40 ms or
\* 120 ms or a failure of 120 ms.
MaxRecords == 3

StatSnapshots == { << 250, 450 >>, << 500, 900 >> }
StatEndpoints == { SingleEndpoint, BulkEndpoint(0), BulkEndpoint(5) }
StatSamples == { << 40, TRUE >>, << 120, TRUE >>, << 120, FALSE >> }

StatRecord(snapshot, endpoint, sample) ==
    LET o == IF sample[2]
             THEN Response(HTTP_OK, JsonDict(RecsList(1), NoTotal, NoNested),
                           << "o", "k" >>, 0)
             ELSE Raised("Timeout", << "t" >>, 0)
        id == IF endpoint = SingleEndpoint THEN 1 ELSE NoneId
        count == IF sample[2] THEN 1 ELSE 0
    IN  [ ScalabilityResult(snapshot[1], snapshot[2], endpoint, id, o, count)
            EXCEPT !.response_time_ms = sample[1] ]

StatRecords ==
    { StatRecord(s, e, m) :
        s \in StatSnapshots, e \in StatEndpoints, m \in StatSamples }

StatLists == UNION { [ 1..n -> StatRecords ] : n \in 0..MaxRecords }

InitStats ==
    /\ results \in StatLists
    /\ contacts_data = Pool(0)
    /\ properties_data = Pool(0)
    /\ args_max_contacts = 0
    /\ args_max_properties = 0
    /\ max_contacts = 0
    /\ max_properties = 0
    /\ contact_batch_size = 1
    /\ property_batch_size = 1
    /\ contacts_tbl = << >>
    /\ properties_tbl = << >>
    /\ contacts_seq = 0
    /\ properties_seq = 0
    /\ tests_per_step = 0
    /\ include_bulk_tests = TRUE
    /\ bulk_batch_sizes = << 0, 5 >>
    /\ service = << Response(HTTP_OK, NotJson, << >>, 0) >>
    /\ current_contacts = 0
    /\ current_properties = 0
    /\ step = 0
    /\ all_contact_ids = << >>
    /\ new_contact_ids = << >>
    /\ db_contacts = IF results = << >> THEN 0
                     ELSE LargestContacts(size_groups(results))
    /\ db_properties = 0
    /\ test_num = 0
    /\ bulk_idx = 0
    /\ csv_rows = << >>
    /\ probes_sent = Len(results)
    /\ health = HTTP_OK
    /\ fatal = ""
    /\ step_printed = NoStepSummary
    /\ summary_printed = NoSummary
    /\ bulk_sent = << >>
    /\ delays = 0
    /\ pc = "step_summary"

\* a second call of tester.print_summary_stats()
PrintSummaryAgain == SummaryCall("done", "again")

NextStats ==
    \/ StepSummary
    \/ LoopExit
    \/ SaveResults
    \/ PrintSummary
    \/ PrintSummaryAgain

SpecStats == InitStats /\ [][NextStats]_vars

\* ------------------------------------------------------------------ claims
\* the outcome of the request that produced the i-th record
OutcomeOf(i) == service[((i - 1) % Len(service)) + 1]

\* control points from the seeding to the end of main()
GrowthPcs == { "seed", "loop", "grow_properties", "single", "bulk",
               "step_summary", "save", "summary" }

\* C1: after the reset, every step of a run (the seeding included) leaves the
\* contact count and the property count at least what they were and at most
\* the size of the respective pool.
GrowthStepOk ==
    pc \in GrowthPcs =>
        /\ Len(contacts_tbl') >= Len(contacts_tbl)
        /\ Len(properties_tbl') >= Len(properties_tbl)
        /\ Len(contacts_tbl') <= Len(contacts_data)
        /\ Len(properties_tbl') <= Len(properties_data)

C1_CountsMonotoneWithinPool == [][GrowthStepOk]_vars

C1_Witness ==
    /\ pc = "done"
    /\ step = 2
    /\ Len(contacts_tbl) = 2 /\ Len(contacts_data) = 2
    /\ Len(properties_tbl) = 2 /\ Len(properties_data) = 2

\* C2: once the tables are cleared, the contact count never exceeds the
\* configured max_contacts.
C2_ContactsWithinMax ==
    pc \in GrowthPcs \cup { "done" } => Len(contacts_tbl) <= args_max_contacts

\* C3: once the tables are cleared, the property count (the initial batch
\* included) never exceeds the configured max_properties.
C3_PropertiesWithinMax ==
    pc \in GrowthPcs \cup { "done" } => Len(properties_tbl) <= args_max_properties

\* records of the current step, by endpoint
StepRecords(name) ==
    { i \in 1..Len(results) :
        results[i].total_contacts = db_contacts /\ results[i].endpoint.name = name }

\* the configured bulk sizes that fit the identifiers inserted so far
FittingBulk ==
    IF include_bulk_tests
    THEN { j \in 1..Len(bulk_batch_sizes) :
             bulk_batch_sizes[j] <= Len(all_contact_ids) }
    ELSE { }

\* C4: no outcome of a request escapes the exerciser or stops the run: every
\* request issued yields a record, and at the end of each step the step holds
\* tests_per_step single records followed by one bulk record per fitting batch
\* size, whatever the outcomes were.
C4_ProbesIndependentOfOutcomes ==
    /\ fatal \in { "", "SystemExit", "DatabaseError" }
    /\ Len(results) = probes_sent
    /\ pc = "step_summary" =>
          /\ Cardinality(StepRecords("single_contact")) = tests_per_step
          /\ Cardinality(StepRecords("bulk_recommendations")) =
                Cardinality(FittingBulk)
          /\ \A i \in StepRecords("bulk_recommendations"),
                j \in StepRecords("single_contact") : j < i

C4_Witness ==
    /\ pc = "done"
    /\ Len(results) >= 3
    /\ OutcomeOf(1).kind = "exception" /\ ~results[1].success
    /\ results[1].endpoint.name = "single_contact"
    /\ OutcomeOf(2).body.tag = "notjson" /\ results[2].status_code = 200
    /\ results[2].endpoint.name = "bulk_recommendations"
    /\ results[3].endpoint.name = "bulk_recommendations"

\* C5: a run ended by a database error after records were collected has
\* exported every record collected before the error.
C5_PartialResultsExported ==
    (pc = "crashed" /\ fatal = "DatabaseError" /\ results # << >>) =>
        csv_rows = results

\* C6 (as stated): a record is a failure iff the request raised or the status
\* is outside 200..299.
C6_FailureIffErrorOrNon2xx ==
    \A i \in 1..Len(results) :
        ~results[i].success <=>
            \/ OutcomeOf(i).kind = "exception"
            \/ OutcomeOf(i).status_code \notin 200..299

\* C6 (amended): a record is a failure iff the request raised or the status is
\* not 200; exactly the responses with status 200 yield a success.
C6_FailureIffErrorOrNot200 ==
    \A i \in 1..Len(results) :
        ~results[i].success <=>
            \/ OutcomeOf(i).kind = "exception"
            \/ OutcomeOf(i).status_code # 200

C6_Witness ==
    \E i \in 1..Len(results) :
        /\ OutcomeOf(i).kind = "response"
        /\ OutcomeOf(i).status_code = 204
        /\ ~results[i].success
        /\ results[i].endpoint.name = "bulk_recommendations"

\* C7: every failed record carries a non-empty error description and every
\* successful record carries none.
C7_FailureHasErrorText ==
    \A i \in 1..Len(results) :
        IF results[i].success
        THEN results[i].error_message.isNone
        ELSE /\ ~results[i].error_message.isNone
             /\ Len(results[i].error_message.text) > 0

\* C8: a request that fails appends a record with result count 0, whatever the
\* body holds, and leaves the run in its probing loop, ready for the next
\* probe.
FailedProbeStepOk ==
    (Len(results') = Len(results) + 1 /\ ~results'[Len(results')].success) =>
        /\ results'[Len(results')].recommendations_count = 0
        /\ pc' \in { "single", "bulk" }
        /\ fatal' = ""

C8_FailureCountsNothing == [][FailedProbeStepOk]_vars

C8_Witness ==
    \E i \in 1..Len(results) :
        /\ i < Len(results)
        /\ results[i].endpoint.name = "bulk_recommendations"
        /\ results[i].status_code = 503
        /\ OutcomeOf(i).body.recs.len > 0
        /\ ~results[i].success
        /\ results[i].recommendations_count = 0

\* C9: exhausting the contact pool is not an error: a growth call returns the
\* identifiers requested or, when fewer are left in the pool, those left, and
\* never inserts beyond the pool; a full store ends the growth loop, only a
\* database error crashes the run, and a run that returns to main() exports
\* all its records.
C9_PoolExhaustionIsNormal ==
    /\ pc \in GrowthPcs \cup { "done" } =>
          /\ Len(contacts_tbl) <= Len(contacts_data)
          /\ Len(new_contact_ids) <= contact_batch_size
    /\ pc = "grow_properties" =>
          Len(new_contact_ids) =
              Min(contact_batch_size,
                  Len(contacts_data) - (Len(contacts_tbl) - Len(new_contact_ids)))
    /\ (pc = "loop" /\ Len(contacts_tbl) >= Len(contacts_data)) =>
          ~(current_contacts < max_contacts)
    /\ pc = "crashed" => fatal = "DatabaseError"
    /\ pc \in { "summary", "done" } => csv_rows = results

C9_Witness ==
    /\ pc = "done"
    /\ Len(contacts_data) = 2 /\ contact_batch_size = 1
    /\ args_max_contacts > Len(contacts_data)
    /\ Len(contacts_tbl) = 2
    /\ step = 2
    /\ \E i, j \in 1..Len(csv_rows) :
          csv_rows[i].total_contacts = 1 /\ csv_rows[j].total_contacts = 2

\* C10: a failed health probe ends the run at once: the tables are as they were
\* found, no recommendation request is issued and no record exists.
C10_UnhealthyAbortsBeforeGrowth ==
    health \notin { -1, HTTP_OK } =>
        /\ pc = "exit"
        /\ contacts_tbl = OldRows(PreRows)
        /\ properties_tbl = OldRows(PreRows)
        /\ contacts_seq = PreRows /\ properties_seq = PreRows
        /\ probes_sent = 0
        /\ results = << >>

C10_Witness ==
    /\ health = 503
    /\ pc = "exit"
    /\ contacts_tbl # << >>

\* the latencies of the successful records taken at contact count c by
\* endpoint e
TimesAt(c, e) ==
    LET rs == SelectSeq(results, LAMBDA r : r.total_contacts = c
                                              /\ r.endpoint = e /\ r.success)
    IN  [ i \in 1..Len(rs) |-> rs[i].response_time_ms ]

\* the efficiencies of the last summary
EfficiencyLinesPrinted == summary_printed.comparison.efficiency

\* C11: every efficiency the summary computes equals L / (S x B), where S is
\* the mean latency of the successful single records of the snapshot, B the
\* batch size and L the mean latency of the successful bulk records of that
\* size at the snapshot: efficiency x S x B = L, written over the sums and
\* the numbers of records (S = 40, B = 5, L = 120 give 3/5).
C11_EfficiencyIsBulkOverSingleTimesSize ==
    \A i \in 1..Len(EfficiencyLinesPrinted) :
        LET line == EfficiencyLinesPrinted[i]
            single == TimesAt(line.contacts, SingleEndpoint)
            bulk == TimesAt(line.contacts, BulkEndpoint(line.bulk_size))
        IN  /\ single # << >> /\ bulk # << >>
            /\ line.efficiency.n * SumSeq(single) * line.bulk_size * Len(bulk)
                 = line.efficiency.d * Len(single) * SumSeq(bulk)

C11_Witness ==
    /\ pc = "done"
    /\ summary_printed.comparison.avg_single_time = << Rat(40, 1) >>
    /\ \E i \in 1..Len(EfficiencyLinesPrinted) :
          /\ EfficiencyLinesPrinted[i].contacts = 500
          /\ EfficiencyLinesPrinted[i].bulk_size = 5
          /\ EfficiencyLinesPrinted[i].bulk_time = Rat(120, 1)
          /\ EfficiencyLinesPrinted[i].efficiency = Rat(3, 5)
    /\ \E j \in 1..Len(results) : results[j].total_properties = 900

\* the mean of a non-empty sequence of latencies equals the fraction q
IsMeanOf(q, times) == q.n * Len(times) = q.d * SumSeq(times)

\* the successful ones among the records rs, as latencies
SuccessfulTimes(rs) ==
    LET ok == SelectSeq(rs, LAMBDA r : r.success)
    IN  [ i \in 1..Len(ok) |-> ok[i].response_time_ms ]

\* the records of this step made by the endpoint called name
StepRecordsOf(name) ==
    SelectSeq(results, LAMBDA r : r.total_contacts = db_contacts
                                    /\ r.endpoint.name = name)

\* a line of a grouped table reports the mean over the successful records of
\* its group and the success rate over all of them
GroupLineOk(row) ==
    LET group == SelectSeq(results, LAMBDA r :
                     /\ r.total_contacts = row.contacts
                     /\ r.total_properties = row.properties
                     /\ r.endpoint = row.endpoint)
        times == SuccessfulTimes(group)
    IN  /\ times # << >> => IsMeanOf(row.avg_time, times)
        /\ row.success_rate.n * Len(group) = row.success_rate.d * 100 * Len(times)

\* C12: every mean latency computed for a snapshot is taken over the
\* successful records only, the success rate over all records: in the step
\* summary printed during the run, in the grouped tables of the summary, and
\* in the single-mode mean the efficiencies are divided by.
C12_MeansOverSuccessfulOnly ==
    /\ pc = "loop" =>
          /\ \A i \in 1..Len(step_printed.single) :
                SuccessfulTimes(StepRecordsOf("single_contact")) # << >> =>
                    IsMeanOf(step_printed.single[i].avg_response_time,
                             SuccessfulTimes(StepRecordsOf("single_contact")))
          /\ \A i \in 1..Len(step_printed.bulk) :
                SuccessfulTimes(StepRecordsOf("bulk_recommendations")) # << >> =>
                    IsMeanOf(step_printed.bulk[i].avg_response_time,
                             SuccessfulTimes(StepRecordsOf("bulk_recommendations")))
    /\ \A i \in 1..Len(summary_printed.single) :
          GroupLineOk(summary_printed.single[i])
    /\ \A i \in 1..Len(summary_printed.bulk) :
          GroupLineOk(summary_printed.bulk[i])
    /\ \A i \in 1..Len(summary_printed.comparison.avg_single_time) :
          IsMeanOf(summary_printed.comparison.avg_single_time[i],
                   TimesAt(db_contacts, SingleEndpoint))

\* the contact counts at which results has a successful record of endpoint e
MeasuredAt(e) ==
    { results[i].total_contacts : i \in { j \in 1..Len(results) :
          results[j].endpoint = e /\ results[j].success } }

\* the batch sizes with a successful bulk record at contact count c
SizesMeasuredAt(c) ==
    { results[i].endpoint.size : i \in { j \in 1..Len(results) :
          /\ results[j].endpoint.name = "bulk_recommendations"
          /\ results[j].total_contacts = c
          /\ results[j].success } }

\* the largest contact count of the record set
LargestSnapshot ==
    CHOOSE c \in { results[i].total_contacts : i \in 1..Len(results) } :
        \A i \in 1..Len(results) : results[i].total_contacts <= c

\* C13 (as stated): once the summary has completed, every snapshot with a
\* successful single record has one efficiency for each batch size
\* successfully measured at it.
C13_EfficiencyAtEverySnapshot ==
    summary_printed.called /\ pc # "crashed" =>
        \A c \in MeasuredAt(SingleEndpoint) : \A b \in SizesMeasuredAt(c) :
            \E i \in 1..Len(EfficiencyLinesPrinted) :
                /\ EfficiencyLinesPrinted[i].contacts = c
                /\ EfficiencyLinesPrinted[i].bulk_size = b

\* C13 (amended): the summary computes efficiencies for the largest contact
\* count of the record set only, and only when it has a successful single
\* record: never more than one per batch size successfully measured there,
\* and exactly one per such batch size when the summary completes.
C13_EfficiencyAtLargestSnapshotOnly ==
    summary_printed.called /\ results # << >> =>
        LET sizes == IF LargestSnapshot \in MeasuredAt(SingleEndpoint)
                     THEN SizesMeasuredAt(LargestSnapshot) ELSE { }
            lines == EfficiencyLinesPrinted
        IN  /\ \A i \in 1..Len(lines) :
                  /\ lines[i].contacts = LargestSnapshot
                  /\ lines[i].bulk_size \in sizes
            /\ \A i, j \in 1..Len(lines) :
                  i # j => lines[i].bulk_size # lines[j].bulk_size
            /\ pc # "crashed" =>
                  { lines[i].bulk_size : i \in 1..Len(lines) } = sizes

C13_Witness ==
    /\ pc = "done"
    /\ Len(EfficiencyLinesPrinted) = 1
    /\ EfficiencyLinesPrinted[1].contacts = 500
    /\ 250 \in MeasuredAt(SingleEndpoint)

\* C14: whatever the records (single only, bulk only, failures only, any
\* batch size the harness records), the efficiency analysis completes: no
\* exception ends the summary.
C14_AnalysisNeverRaises ==
    /\ ~summary_printed.comparison.raised
    /\ fatal # "ZeroDivisionError"

\* a body the single parser finds neither a dict whose "recommendations" has
\* a length nor a list
UnexpectedSingle(body) ==
    /\ body.tag # "list"
    /\ ~(body.tag = "dict" /\ body.recs.has /\ body.recs.sized)

\* a nested list all of whose items the bulk parser can count or skip
WellFormed(items) == \A k \in 1..Len(items) : items[k] # -2

\* a body in which the bulk parser finds none of its three shapes intact
UnexpectedBulk(body) ==
    \/ body.tag # "dict"
    \/ body.recs.has /\ ~body.recs.sized
    \/ /\ ~body.recs.has /\ ~body.total.has
       /\ ~(body.nested.has /\ body.nested.islist
              /\ WellFormed(body.nested.items))

\* C15: a response with status 200 whose body is not JSON or has a shape the
\* parser does not expect gives a successful record with result count 0, and
\* no exception leaves the measurement.
C15_UnparsedBodyCountsZero ==
    /\ pc # "crashed"
    /\ \A i \in 1..Len(results) :
          LET o == OutcomeOf(i)
              unexpected == IF results[i].endpoint.name = "single_contact"
                            THEN UnexpectedSingle(o.body)
                            ELSE UnexpectedBulk(o.body)
          IN  (o.kind = "response" /\ o.status_code = HTTP_OK /\ unexpected) =>
                  /\ results[i].success
                  /\ results[i].recommendations_count = 0

\* the items a well-formed nested list holds
ItemsIn(items) ==
    SumSeq([ k \in 1..Len(items) |-> IF items[k] >= 0 THEN items[k] ELSE 0 ])

\* C16: the result count of a successful bulk record is read from one shape of
\* the body, the first present of: the length of the flat "recommendations"
\* array, the value of the total-count field, the sum of the lengths of the
\* per-entity lists.
C16_BulkCountFromOneShape ==
    \A i \in 1..Len(results) :
        LET b == OutcomeOf(i).body
        IN  (/\ results[i].endpoint.name = "bulk_recommendations"
             /\ results[i].success
             /\ b.tag = "dict") =>
                /\ (b.recs.has /\ b.recs.sized) =>
                      results[i].recommendations_count = b.recs.len
                /\ (~b.recs.has /\ b.total.has) =>
                      results[i].recommendations_count = b.total.val
                /\ (/\ ~b.recs.has /\ ~b.total.has
                    /\ b.nested.has /\ b.nested.islist
                    /\ WellFormed(b.nested.items)) =>
                      results[i].recommendations_count = ItemsIn(b.nested.items)

C16_Witness ==
    \E i \in 1..Len(results) :
        /\ results[i].endpoint.name = "bulk_recommendations"
        /\ results[i].success
        /\ OutcomeOf(i).body = JsonDict(RecsList(1), Total(5), Nested(<< 2 >>))
        /\ results[i].recommendations_count = 1

\* C17: the list of results only grows at its end: every step of a run, the
\* step summaries, the export and the final summary included, leaves the
\* records it found where they were, as they were.
ResultsExtended ==
    /\ Len(results') >= Len(results)
    /\ SubSeq(results', 1, Len(results)) = results

C17_ResultsAppendOnly == [][ResultsExtended]_vars

C17_Witness ==
    /\ pc = "done"
    /\ Len(results) >= 3
    /\ csv_rows = results
    /\ summary_printed.called
    /\ step_printed.single # << >>

\* C18: a second call of the summary with no record appended since the first
\* gives the output of the first and leaves the records as they were.
SecondSummaryOk ==
    (pc = "done" /\ pc' # "done") =>
        /\ summary_printed' = summary_printed
        /\ results' = results

C18_SummaryIdempotent == [][SecondSummaryOk]_vars

C18_Witness ==
    /\ pc = "again"
    /\ Len(results) >= 2
    /\ Len(EfficiencyLinesPrinted) >= 1
    /\ summary_printed.single # << >>

\* the list rs with the records at positions i and i + 1 exchanged
Swapped(rs, i) ==
    [ k \in 1..Len(rs) |-> IF k = i THEN rs[i + 1]
                           ELSE IF k = i + 1 THEN rs[i] ELSE rs[k] ]

C20_LatencyNonNegative ==
    \A i \in 1..Len(results) : results[i].response_time_ms >= 0

\* the pool records at positions c .. min(c + n, pool size) - 1, counted
\* from 0
PoolSegment(data, c, n) ==
    [ i \in 1..(Min(c + n, Len(data)) - c) |-> data[c + i] ]

RecsOf(rows) == [ i \in 1..Len(rows) |-> rows[i].rec ]

\* the rows a step appended to a table
NewRows(old, new) == SubSeq(new, Len(old) + 1, Len(new))

\* control points after the reset of the tables
AfterResetPcs == GrowthPcs \cup { "done" }

\* C21: a growth call made at store count c for n records appends exactly the
\* pool records at positions c .. min(c + n, pool size) - 1, in pool order,
\* and returns the identifiers of the rows it appended, in order; after any
\* growth calls since the reset each table holds the first `count` records of
\* its pool, once each.
GrowthCallOk ==
    /\ (pc = "loop" /\ current_contacts < max_contacts /\ pc' # "crashed") =>
          /\ SubSeq(contacts_tbl', 1, Len(contacts_tbl)) = contacts_tbl
          /\ RecsOf(NewRows(contacts_tbl, contacts_tbl')) =
                PoolSegment(contacts_data, Len(contacts_tbl), contact_batch_size)
          /\ new_contact_ids' = IdsOf(NewRows(contacts_tbl, contacts_tbl'))
    /\ (pc = "seed" /\ pc' # "crashed") =>
          RecsOf(NewRows(properties_tbl, properties_tbl')) =
              PoolSegment(properties_data, Len(properties_tbl),
                          property_batch_size)
    /\ (pc = "grow_properties" /\ pc' # "crashed") =>
          RecsOf(NewRows(properties_tbl, properties_tbl')) =
              PoolSegment(properties_data, Len(properties_tbl),
                          properties_to_add)
    /\ pc' \in AfterResetPcs =>
          /\ Len(contacts_tbl') <= Len(contacts_data)
          /\ Len(properties_tbl') <= Len(properties_data)
          /\ RecsOf(contacts_tbl') =
                SubSeq(contacts_data, 1, Len(contacts_tbl'))
          /\ RecsOf(properties_tbl') =
                SubSeq(properties_data, 1, Len(properties_tbl'))
          /\ \A i, j \in 1..Len(contacts_tbl') :
                i # j => contacts_tbl'[i].id # contacts_tbl'[j].id

BatchFailureOk ==
    /\ (pc \in { "seed", "loop", "grow_properties" } /\ pc' = "crashed") =>
          /\ fatal' = "DatabaseError"
          /\ contacts_tbl' = contacts_tbl
          /\ properties_tbl' = properties_tbl
          /\ results' = results
          /\ probes_sent' = probes_sent
    /\ pc = "crashed" => UNCHANGED vars

C22_BatchFailureIsFatalAndAtomic == [][BatchFailureOk]_vars

C22_Witness ==
    /\ pc = "crashed"
    /\ fatal = "DatabaseError"
    /\ step = 2
    /\ Len(contacts_tbl) = 1
    /\ contacts_seq = PreRows + 2
    /\ results # << >>

\* the growth loop is left for the export
LoopEnds == pc = "loop" /\ pc' = "save"

\* an iteration that goes on to its property growth and its probes has added
\* at least one contact, to the store and to the loop's counter
LoopIterationOk ==
    (pc = "loop" /\ pc' = "grow_properties") =>
        /\ Len(contacts_tbl') >= Len(contacts_tbl) + 1
        /\ current_contacts' >= current_contacts + 1
        /\ current_contacts' = Len(contacts_tbl')

\* the loop ends at the target, or on an empty batch of size zero in the
\* first iteration
LoopEndOk ==
    LoopEnds =>
        \/ current_contacts' >= max_contacts
        \/ /\ contact_batch_size = 0
           /\ step' = 1
           /\ contacts_tbl' = contacts_tbl

\* C23 (as stated): the loop ends only with the contact target reached or
\* the contact pool used up.
C23_EndsAtTargetOrPoolEnd ==
    pc = "save" =>
        \/ current_contacts >= max_contacts
        \/ Len(contacts_tbl) >= Len(contacts_data)

\* C23: when every call returns, a run in the growth loop always leaves it
\* (for the export, or with an exception that ends the process); every
\* iteration that does not end the loop adds at least one contact; the loop
\* ends with the target reached or, for a contact batch size of zero, on the
\* empty batch of its first iteration.
C23_RunTerminates ==
    /\ [][LoopIterationOk /\ LoopEndOk]_vars
    /\ (pc = "loop") ~> (pc \in { "save", "crashed" })

C23_Witness ==
    /\ pc = "save"
    /\ contact_batch_size = 0
    /\ step = 1
    /\ current_contacts < max_contacts
    /\ Len(contacts_tbl) < Len(contacts_data)

\* control points at which the tables are written
WritingPcs == { "clear", "seed", "loop", "grow_properties" }

\* control points at which requests are measured
ProbingPcs == { "single", "bulk" }

\* C24: every probe of a step is issued after the step's growth and before
\* the next growth: the tables do not change while a step is probed, and every
\* record carries the counts read once after the growth, which are the row
\* counts of the two tables when the probe is issued.
ProbeAtSnapshotOk ==
    /\ (contacts_tbl' # contacts_tbl \/ properties_tbl' # properties_tbl) =>
          pc \in WritingPcs
    /\ probes_sent' # probes_sent =>
          /\ pc \in ProbingPcs
          /\ db_contacts = Len(contacts_tbl)
          /\ db_properties = Len(properties_tbl)
    /\ (pc \in ProbingPcs /\ pc' \in ProbingPcs) =>
          /\ db_contacts' = db_contacts
          /\ db_properties' = db_properties
    /\ Len(results') > Len(results) =>
          /\ pc \in ProbingPcs
          /\ results'[Len(results')].total_contacts = Len(contacts_tbl)
          /\ results'[Len(results')].total_properties = Len(properties_tbl)
          /\ results'[Len(results')].total_contacts = db_contacts
          /\ results'[Len(results')].total_properties = db_properties

C24_ProbesAtFixedSnapshot == [][ProbeAtSnapshotOk]_vars

\* the second step's records carry its counts, with a property table smaller
\* than the loop's own counter
C24_Witness ==
    /\ pc = "step_summary"
    /\ step = 2
    /\ Len(results) >= 2
    /\ results[Len(results)].total_contacts = 2
    /\ results[Len(results)].total_properties = Len(properties_tbl)
    /\ results[1].total_contacts = 1
    /\ current_properties # Len(properties_tbl)

\* the records whose latencies enter an efficiency line: the successful
\* single records and the successful bulk records of the line's batch size
\* that the comparison selects, by the line's contact count
EnteringRecords(line) ==
    SelectSeq(results, LAMBDA r :
        /\ r.total_contacts = line.contacts
        /\ r.success
        /\ r.endpoint \in { SingleEndpoint, BulkEndpoint(line.bulk_size) })

\* C25: the records of a run that enter one efficiency value all have the
\* same snapshot, contact count and property count alike: the bulk records
\* of a line are combined only with single records of their own snapshot.
C25_EfficiencyWithinOneSnapshot ==
    /\ \A i \in 1..Len(EfficiencyLinesPrinted) :
          LET entering == EnteringRecords(EfficiencyLinesPrinted[i])
          IN  /\ \E j \in 1..Len(entering) :
                    entering[j].endpoint = SingleEndpoint
              /\ \E j \in 1..Len(entering) :
                    entering[j].endpoint.name = "bulk_recommendations"
              /\ \A j, k \in 1..Len(entering) :
                    /\ entering[j].total_contacts = entering[k].total_contacts
                    /\ entering[j].total_properties =
                          entering[k].total_properties
    /\ \A j, k \in 1..Len(results) :
          results[j].total_contacts = results[k].total_contacts =>
              results[j].total_properties = results[k].total_properties

\* an efficiency printed by a run that measured two snapshots, with single
\* and bulk records at both
C25_Witness ==
    /\ pc = "done"
    /\ Len(EfficiencyLinesPrinted) >= 1
    /\ EfficiencyLinesPrinted[1].contacts = 2
    /\ results[1].total_contacts = 1
    /\ results[1].endpoint = SingleEndpoint
    /\ results[2].total_contacts = 1
    /\ results[2].endpoint.name = "bulk_recommendations"
    /\ results[2].success

\* the identifiers of the rows the current step's contact growth inserted:
\* the last rows of the table, as many as the call returned
StepContactIds ==
    { contacts_tbl[i].id :
        i \in (Len(contacts_tbl) - Len(new_contact_ids) + 1)..Len(contacts_tbl) }

\* the identifiers of the rows inserted by earlier steps
EarlierContactIds ==
    { contacts_tbl[i].id : i \in 1..(Len(contacts_tbl) - Len(new_contact_ids)) }

\* C26: every single probe targets a contact inserted by the contact growth
\* of its own step: an identifier that growth call returned, which is in the
\* table and was not inserted by an earlier step.
SingleTargetOk ==
    (pc = "single" /\ Len(results') > Len(results)) =>
        LET r == results'[Len(results')]
        IN  /\ r.endpoint = SingleEndpoint
            /\ r.contact_id \in Range(new_contact_ids)
            /\ Len(new_contact_ids) <= Len(contacts_tbl)
            /\ r.contact_id \in StepContactIds
            /\ r.contact_id \notin EarlierContactIds

C26_SingleProbeTargetsOwnStep == [][SingleTargetOk]_vars

C26_Witness ==
    /\ pc = "single"
    /\ step = 2
    /\ Len(contacts_tbl) = 2
    /\ Len(results) >= 2
    /\ results[Len(results)].endpoint = SingleEndpoint
    /\ results[Len(results)].contact_id = contacts_tbl[2].id
    /\ results[1].contact_id = contacts_tbl[1].id

\* C27: every bulk probe sends as many identifiers as the configured size of
\* its pass, pairwise distinct, all of them identifiers of contacts inserted
\* so far; the batch size in the record's endpoint is the number sent.
BulkPayloadOk ==
    (pc = "bulk" /\ probes_sent' # probes_sent) =>
        /\ Len(bulk_sent') = bulk_batch_sizes[bulk_idx]
        /\ \A i, j \in 1..Len(bulk_sent') :
              i # j => bulk_sent'[i] # bulk_sent'[j]
        /\ Range(bulk_sent') \subseteq Range(all_contact_ids)
        /\ Range(bulk_sent') \subseteq
              { contacts_tbl[i].id : i \in 1..Len(contacts_tbl) }
        /\ Len(results') > Len(results) =>
              results'[Len(results')].endpoint = BulkEndpoint(Len(bulk_sent'))

C27_BulkProbeSendsConfiguredDistinctIds == [][BulkPayloadOk]_vars

C27_Witness ==
    /\ pc = "bulk"
    /\ Len(bulk_sent) = 2
    /\ bulk_sent[1] # bulk_sent[2]
    /\ results # << >>
    /\ results[Len(results)].endpoint = BulkEndpoint(2)

\* the batch sizes of the bulk records, in the order of the records
BulkSizesProbed ==
    LET recs == SelectSeq(results, LAMBDA r :
                    r.endpoint.name = "bulk_recommendations")
    IN  [ i \in 1..Len(recs) |-> recs[i].endpoint.size ]

\* the configured sizes that do not exceed the identifiers inserted so far
FittingSizes ==
    SelectSeq(bulk_batch_sizes, LAMBDA b : b <= Len(all_contact_ids))

\* at the end of the step's probes, one bulk record for each fitting size and
\* none for the others
FittingSizesProbed == pc = "step_summary" => BulkSizesProbed = FittingSizes

\* C28: with bulk probing enabled, whatever the configured list, the step is
\* not aborted, and it issues one bulk probe for each configured size that
\* does not exceed the number of identifiers inserted so far and none for a
\* larger size.
C28_BulkProbeForEachFittingSize ==
    include_bulk_tests => pc # "crashed" /\ FittingSizesProbed

\* the same for the lists without a negative size
BulkProbeForEachFittingSizeFromZero ==
    (include_bulk_tests /\ \A i \in 1..Len(bulk_batch_sizes) :
                              bulk_batch_sizes[i] >= 0) =>
        pc # "crashed" /\ FittingSizesProbed

\* the loop has seen the end of the contact growth: its test fails, or the
\* run is past the loop
GrowthOver ==
    \/ pc = "loop" /\ ~(current_contacts < max_contacts)
    \/ pc \in { "save", "summary", "done", "crashed" }

\* C29: once the loop finds the contact target reached, or a contact growth
\* call has returned no identifier, no row is inserted in either table for the
\* rest of the run, whatever room the property pool and max_properties leave;
\* after the seeding, properties are inserted only in the property growth of a
\* step, after a contact growth of that step that inserted at least one
\* contact.
GrowthStopsOk ==
    /\ GrowthOver =>
          contacts_tbl' = contacts_tbl /\ properties_tbl' = properties_tbl
    /\ (pc = "loop" /\ pc' = "save") =>
          contacts_tbl' = contacts_tbl /\ properties_tbl' = properties_tbl
    /\ (properties_tbl' # properties_tbl /\ pc \notin { "clear", "seed" }) =>
          /\ pc = "grow_properties"
          /\ new_contact_ids # << >>
          /\ Len(new_contact_ids) <= Len(contacts_tbl)
          /\ new_contact_ids =
                IdsOf(SubSeq(contacts_tbl,
                             Len(contacts_tbl) - Len(new_contact_ids) + 1,
                             Len(contacts_tbl)))

C29_GrowthStopsWithContacts == [][GrowthStopsOk]_vars

\* a run ended by an empty contact batch, with room left for properties
C29_Witness ==
    /\ pc = "done"
    /\ step = 1
    /\ new_contact_ids = << >>
    /\ contacts_tbl = << >>
    /\ Len(properties_tbl) = 1
    /\ Len(properties_tbl) < Len(properties_data)
    /\ Len(properties_tbl) < max_properties

\* C30: a pacing delay is performed between any two consecutive requests to
\* the service: the delays performed are at least the requests sent less one.
C30_PacingDelayBetweenRequests == probes_sent >= 2 => delays >= probes_sent - 1

====
